---- MODULE Spec2Model ----
(***************************************************************************)
(* Sequential finite-element initialization of a discretized DAE model:   *)
(* idaes/core/util/initialization.py, initialize_by_time_element.         *)
(*                                                                         *)
(* Time points are identified by their 1-based position in the            *)
(* ContinuousSet (time[k] is the point k).  The flowsheet holds, for each  *)
(* (derivative, differential) pair p and each point t, the variables      *)
(* <<"drv",p,t>> and <<"dv",p,t>>, the constraints <<"ode",p,t>> and, at   *)
(* every non-initial point, <<"disc",p,t>>; one constraint and one         *)
(* variable are not indexed by time.                                       *)
(***************************************************************************)
EXTENDS Integers, Sequences, FiniteSets, TLC

MaxNfe == 2
MaxNcp == 2
NPairs == 2

\* Python's None as the value of a variable that has no value.
None == -1

\* time.get_discretization_info() == {}
NotDiscretized == [scheme |-> "", nfe |-> 1, ncp |-> 1]

CollocationSchemes == {"LAGRANGE-RADAU", "LAGRANGE-LEGENDRE"}

DifferenceSchemes ==
    {"BACKWARD Difference", "FORWARD Difference", "CENTRAL Difference", "OTHER"}

\* The discretization metadata a ContinuousSet can carry.
DiscInfos ==
    {NotDiscretized}
    \cup [scheme : CollocationSchemes, nfe : 1..MaxNfe, ncp : 1..MaxNcp]
    \cup [scheme : DifferenceSchemes, nfe : 1..MaxNfe, ncp : {1}]

\* Number of points of the discretized set: the first point and ncp points
\* per finite element (the two bounds alone when not discretized).
NPts(d) == d.nfe * d.ncp + 1

VARIABLES
    disc,                   \* time.get_discretization_info()
    ignore_dof,             \* keyword argument ignore_dof
    stale,                  \* variables that appear in no constraint
    active,                 \* constraint -> active flag
    fixed,                  \* variable -> fixed flag
    value,                  \* variable -> value (None or a number)
    active0, fixed0, value0,\* the model as passed by the caller
    pc,                     \* position in initialize_by_time_element
    err,                    \* the exception raised to the caller
    failure,                \* <<kind, stage>> of the raise
    nfe, ncp, i, t_prev, fe,
    was_originally_active, deactivated,
    con_unindexed_by_time, var_unindexed_by_time,
    was_originally_fixed,
    solves,                 \* stages for which solver.solve was called
    results,                \* termination condition of each call
    fixedByStep             \* variables on which the fixing step called fix()

\* solve_indexed_blocks
VARIABLES
    blocks,                 \* the blocks argument
    tmp_decl,               \* tmp._decl
    tmp_decl_order,         \* tmp._decl_order
    tmp_ctypes,             \* tmp._ctypes
    sib_pc,                 \* position in solve_indexed_blocks
    sib_i,                  \* index of the member being added
    sib_exc                 \* the exception in flight or raised

\* fix_state_vars and revert_state_vars
VARIABLES
    blk_fixed,              \* state variable -> fixed flag
    blk_value,              \* state variable -> value
    blk_fixed0,             \* the fixed flags before fix_state_vars
    blk_value0,             \* the values before fix_state_vars
    state_args,             \* the argument state_args
    flags,                  \* the dict fix_state_vars returns
    sv_pc,                  \* which of the two functions has returned
    sv_err                  \* the exception raised

sibVars == <<blocks, tmp_decl, tmp_decl_order, tmp_ctypes, sib_pc, sib_i,
             sib_exc>>

svVars == <<blk_fixed, blk_value, blk_fixed0, blk_value0, state_args, flags, sv_pc,
            sv_err>>

mainVars == <<disc, ignore_dof, stale, active, fixed, value, active0, fixed0,
          value0, pc, err, failure, nfe, ncp, i, t_prev, fe,
          was_originally_active, deactivated, con_unindexed_by_time,
          var_unindexed_by_time, was_originally_fixed, solves, results,
          fixedByStep>>

vars == <<mainVars, sibVars, svVars>>

Time == 1..NPts(disc)

Pairs == 1..NPairs

UCon == <<"uc", 0, 0>>

UVar == <<"uv", 0, 0>>

TimeConsOf(n) ==
    {<<"ode", p, t>> : p \in Pairs, t \in 1..n}
    \cup {<<"disc", p, t>> : p \in Pairs, t \in 2..n}

TimeVarsOf(n) == {<<k, p, t>> : k \in {"drv", "dv"}, p \in Pairs, t \in 1..n}

TimeCons == TimeConsOf(NPts(disc))

TimeVars == TimeVarsOf(NPts(disc))

AllCons == TimeCons \cup {UCon}

AllVars == TimeVars \cup {UVar}

ConsAt(t) == {c \in TimeCons : c[3] = t}

\* First point of the finite element that owns the non-initial point t.
ElemStart(t) == ((t - 2) \div disc.ncp) * disc.ncp + 1

\* The variables a constraint refers to.
IncidentVars(c) ==
    (CASE c[1] = "ode" -> {<<"drv", c[2], c[3]>>, <<"dv", c[2], c[3]>>, UVar}
       [] c[1] = "disc" -> {<<"drv", c[2], c[3]>>, <<"dv", c[2], c[3]>>,
                            <<"dv", c[2], ElemStart(c[3])>>}
       [] OTHER -> {UVar}) \ stale

ActiveVars(act) == UNION {IncidentVars(c) : c \in {x \in AllCons : act[x]}}

\* degrees_of_freedom: unfixed variables in active constraints minus active
\* constraints.
degrees_of_freedom(act, fx) ==
    Cardinality({v \in ActiveVars(act) : ~fx[v]})
    - Cardinality({c \in AllCons : act[c]})

\* The state of the other functions of the module while they are not called.
SibUnused ==
    /\ blocks = [is_block |-> FALSE, list |-> << >>]
    /\ tmp_decl = << >>
    /\ tmp_decl_order = << >>
    /\ tmp_ctypes = << >>
    /\ sib_pc = "unused"
    /\ sib_i = 0
    /\ sib_exc = ""

SvUnused ==
    /\ blk_fixed = << >>
    /\ blk_value = << >>
    /\ blk_fixed0 = << >>
    /\ blk_value0 = << >>
    /\ state_args = [is_none |-> TRUE, names |-> {}, indices |-> {}]
    /\ flags = << >>
    /\ sv_pc = "unused"
    /\ sv_err = [type |-> "", msg |-> ""]

-----------------------------------------------------------------------------
(* The models passed by the caller: a square initial-value (or            *)
(* terminal-value) problem, as built or with one modification by the caller*)

BoundaryPoint(bc, n) == IF bc = "initial" THEN 1 ELSE n

NoFault == <<"none", UCon>>

Faults(n) ==
    {NoFault}
    \cup {<<"inactive", c>> : c \in TimeConsOf(n) \cup {UCon}}
    \cup {<<"flip", v>> : v \in TimeVarsOf(n) \cup {UVar}}
    \cup {<<"novalue", v>> : v \in TimeVarsOf(n)}

BaseFixed(bc, n) ==
    [v \in TimeVarsOf(n) \cup {UVar} |->
        v[1] = "dv" /\ v[3] = BoundaryPoint(bc, n)]

Init ==
    \E d \in DiscInfos, ig \in BOOLEAN, bc \in {"initial", "terminal"} :
      \E f \in Faults(NPts(d)) :
        /\ disc = d
        /\ ignore_dof = ig
        /\ stale = IF f[1] = "novalue" THEN {f[2]} ELSE {}
        /\ active = [c \in TimeConsOf(NPts(d)) \cup {UCon} |->
                        ~(f[1] = "inactive" /\ f[2] = c)]
        /\ fixed = [v \in TimeVarsOf(NPts(d)) \cup {UVar} |->
                        IF f[1] = "flip" /\ f[2] = v
                        THEN ~BaseFixed(bc, NPts(d))[v]
                        ELSE BaseFixed(bc, NPts(d))[v]]
        /\ value = [v \in TimeVarsOf(NPts(d)) \cup {UVar} |->
                        IF f[1] = "novalue" /\ f[2] = v THEN None ELSE 0]
        /\ active0 = active
        /\ fixed0 = fixed
        /\ value0 = value
        /\ pc = "start"
        /\ err = [type |-> "", msg |-> ""]
        /\ failure = <<"none", 0>>
        /\ nfe = 0
        /\ ncp = 0
        /\ i = 0
        /\ t_prev = 0
        /\ fe = {}
        /\ was_originally_active = << >>
        /\ deactivated = << >>
        /\ con_unindexed_by_time = {}
        /\ var_unindexed_by_time = {}
        /\ was_originally_fixed = << >>
        /\ solves = << >>
        /\ results = << >>
        /\ fixedByStep = {}
        /\ SibUnused
        /\ SvUnused

-----------------------------------------------------------------------------
(* Pieces of initialize_by_time_element                                   *)

NoErr == [type |-> "", msg |-> ""]

\* Variant: the FORWARD branch sets ncp and falls through without raising.
SchemeError_ForwardAccepted(d) ==
    IF d = NotDiscretized
    THEN [type |-> "ValueError", msg |-> "ContinuousSet must be discretized"]
    ELSE CASE d.scheme = "LAGRANGE-RADAU" -> NoErr
           [] d.scheme = "LAGRANGE-LEGENDRE" ->
                [type |-> "NotImplementedError",
                 msg |-> "Initialization does not support collocation with Legendre roots"]
           [] d.scheme = "BACKWARD Difference" -> NoErr
           [] d.scheme = "FORWARD Difference" -> NoErr
           [] d.scheme = "CENTRAL Difference" ->
                [type |-> "NotImplementedError",
                 msg |-> "Initialization does not support central finite difference"]
           [] OTHER ->
                [type |-> "ValueError",
                 msg |-> "Unrecognized discretization scheme. "]

\* The exception the scheme validation raises, NoErr when it accepts.
SchemeError(d) ==
    IF d = NotDiscretized
    THEN [type |-> "ValueError", msg |-> "ContinuousSet must be discretized"]
    ELSE CASE d.scheme = "LAGRANGE-RADAU" -> NoErr
           [] d.scheme = "LAGRANGE-LEGENDRE" ->
                [type |-> "NotImplementedError",
                 msg |-> "Initialization does not support collocation with Legendre roots"]
           [] d.scheme = "BACKWARD Difference" -> NoErr
           [] d.scheme = "FORWARD Difference" ->
                [type |-> "NotImplementedError",
                 msg |-> "Forward initialization (explicit Euler) has not yet been implemented"]
           [] d.scheme = "CENTRAL Difference" ->
                [type |-> "NotImplementedError",
                 msg |-> "Initialization does not support central finite difference"]
           [] OTHER ->
                [type |-> "ValueError",
                 msg |-> "Unrecognized discretization scheme. "]

\* ncp as the function sets it for an accepted scheme.
SchemeNcp(d) == IF d.scheme = "LAGRANGE-RADAU" THEN d.ncp ELSE 1

\* Variants of the gate: the flag is not consulted; only a surplus of
\* variables is caught; nothing is caught.
DofGate_IgnoresFlag(ig, dof) == dof # 0

DofGate_PositiveOnly(ig, dof) == ~ig /\ dof > 0

DofGate_Never(ig, dof) == FALSE

\* The DOF gate: raise exactly when the check is on and DOF is nonzero.
DofGate(ig, dof) == ~ig /\ dof # 0

InitialDofError == [type |-> "ValueError", msg |-> "Nonzero degrees of freedom."]

ElementDofError == [type |-> "ValueError", msg |-> "Nonzero degrees of freedom"]

\* The exception raised for a non-optimal termination at a stage
\* (0: consistent initial conditions, k >= 1: finite element k).
SolveError(stage) ==
    IF stage = 0
    THEN [type |-> "ValueError", msg |-> "Solver failed in initialization"]
    ELSE [type |-> "ValueError", msg |-> "Failure in initialization solve"]

\* get_activity_dict
get_activity_dict(act) == act

\* deactivate_model_at: the constraints indexed at the points, all of them
\* deactivated and recorded.
DeactivatedRecord(pts) == [t \in pts |-> ConsAt(t)]

deactivate_model_at(act, pts) ==
    [c \in DOMAIN act |-> IF c \in TimeCons /\ c[3] \in pts THEN FALSE ELSE act[c]]

\* deactivate_constraints_unindexed_by / fix_vars_unindexed_by: the
\* components the call changed.
UnindexedConsList(act) == {c \in {UCon} : act[c]}

UnindexedVarsList(fx) == {v \in {UVar} : ~fx[v]}

\* Variant: 0-based indexing of the time set.
TPrev_ZeroBased(k, n) == (k - 1) * n

\* t_prev = time[(i-1)*ncp+1]
TPrev(k, n) == (k - 1) * n + 1

\* Variant: the element starts at its initial point.
FEPoints_FromInitial(k, n) == ((k - 1) * n + 1)..(k * n)

\* fe = [time[k] for k in range((i-1)*ncp+2, i*ncp+2)]
FEPoints(k, n) == ((k - 1) * n + 2)..(k * n + 1)

\* derivs_at_time[t] and dvars_at_time[t], in list order.
derivs_at_time(t) == [p \in Pairs |-> <<"drv", p, t>>]

dvars_at_time(t) == [p \in Pairs |-> <<"dv", p, t>>]

\* Variants: the snapshot is not consulted; nothing is reactivated.
ActivateAt_NoSnapshot(act, pts, rec, snap) ==
    [c \in DOMAIN act |-> IF \E t \in pts : c \in rec[t] THEN TRUE ELSE act[c]]

ActivateAt_Nothing(act, pts, rec, snap) == act

\* Reactivation of the recorded components that were originally active.
ActivateAt(act, pts, rec, snap) ==
    [c \in DOMAIN act |->
        IF \E t \in pts : c \in rec[t] /\ snap[c] THEN TRUE ELSE act[c]]

\* Variant: the element is left active after its solve.
DeactivateAt_Nothing(act, pts, rec) == act

\* Deactivation of the recorded components at the points.
DeactivateAt(act, pts, rec) ==
    [c \in DOMAIN act |-> IF \E t \in pts : c \in rec[t] THEN FALSE ELSE act[c]]

\* The variable whose value gates dv.fix(): the loop variable drv left by
\* the loop over init_deriv_list, its last element.
DvarGate(p, tp) == derivs_at_time(tp)[NPairs]

\* The variables on which the fixing step calls fix().
FixCalls(val, tp) ==
    {derivs_at_time(tp)[p] : p \in {q \in Pairs : val[derivs_at_time(tp)[q]] # None}}
    \cup {dvars_at_time(tp)[p] : p \in {q \in Pairs : val[DvarGate(q, tp)] # None}}

PairVars(tp) ==
    {derivs_at_time(tp)[p] : p \in Pairs} \cup {dvars_at_time(tp)[p] : p \in Pairs}

\* Variant: the record of the original flags is not consulted.
UnfixPairs_All(fx, wof, tp) ==
    [v \in DOMAIN fx |-> IF v \in PairVars(tp) THEN FALSE ELSE fx[v]]

\* Unfixing of the pair variables that were not originally fixed.
UnfixPairs(fx, wof, tp) ==
    [v \in DOMAIN fx |-> IF v \in PairVars(tp) /\ ~wof[v] THEN FALSE ELSE fx[v]]

\* Variant: the default of copy_values_at_time, copy_fixed=True.
copy_fixed_True == TRUE

\* The argument copy_fixed=False of the call of copy_values_at_time.
copy_fixed == FALSE

\* copy_values_at_time(fs, fs, t, t_prev, copy_fixed=False) for t in fe
CopyValues(val, fx, pts, tp) ==
    [v \in DOMAIN val |->
        IF v \in TimeVars /\ v[3] \in pts /\ (copy_fixed \/ ~fx[v])
        THEN val[<<v[1], v[2], tp>>]
        ELSE val[v]]

\* The solver writes a value into every unfixed variable of an active
\* constraint; a stale variable is not sent to the solver.
SolverWrite(val, act, fx, stage) ==
    [v \in DOMAIN val |->
        IF v \in ActiveVars(act) /\ ~fx[v] THEN stage + 1 ELSE val[v]]

\* Variant: the loop stops one element short, range(1, nfe).
InLoop_StopsShort(k, n) == k < n

\* for i in range(1, nfe+1): the loop body runs for k.
InLoop(k, n) == k <= n

TerminationConditions == {"optimal", "infeasible"}

\* Variant: the termination condition is not looked at.
IsOptimal_Always(tc) == TRUE

\* results.solver.termination_condition == TerminationCondition.optimal
IsOptimal(tc) == tc = "optimal"

Raise(e, kind, stage) ==
    /\ err' = e
    /\ failure' = <<kind, stage>>
    /\ pc' = "failed"

-----------------------------------------------------------------------------
(* Steps of initialize_by_time_element                                    *)

Validate ==
    /\ pc = "start"
    /\ IF SchemeError(disc) # NoErr
       THEN /\ Raise(SchemeError(disc), "scheme", 0)
            /\ UNCHANGED <<nfe, ncp>>
       ELSE /\ nfe' = disc.nfe
            /\ ncp' = SchemeNcp(disc)
            /\ pc' = "check_dof"
            /\ UNCHANGED <<err, failure>>
    /\ UNCHANGED <<sibVars, svVars, disc, ignore_dof, stale, active, fixed, value, active0,
                   fixed0, value0, i, t_prev, fe, was_originally_active,
                   deactivated, con_unindexed_by_time, var_unindexed_by_time,
                   was_originally_fixed, solves, results, fixedByStep>>

CheckInitialDof ==
    /\ pc = "check_dof"
    /\ IF DofGate(ignore_dof, degrees_of_freedom(active, fixed))
       THEN Raise(InitialDofError, "dof", 0)
       ELSE /\ pc' = "snapshot"
            /\ UNCHANGED <<err, failure>>
    /\ UNCHANGED <<sibVars, svVars, disc, ignore_dof, stale, active, fixed, value, active0,
                   fixed0, value0, nfe, ncp, i, t_prev, fe,
                   was_originally_active, deactivated, con_unindexed_by_time,
                   var_unindexed_by_time, was_originally_fixed, solves,
                   results, fixedByStep>>

SnapshotAndDeactivate ==
    /\ pc = "snapshot"
    /\ was_originally_active' = get_activity_dict(active)
    /\ deactivated' = DeactivatedRecord(Time \ {1})
    /\ active' = deactivate_model_at(active, Time \ {1})
    /\ pc' = "solve_ic"
    /\ UNCHANGED <<sibVars, svVars, disc, ignore_dof, stale, fixed, value, active0, fixed0,
                   value0, err, failure, nfe, ncp, i, t_prev, fe,
                   con_unindexed_by_time, var_unindexed_by_time,
                   was_originally_fixed, solves, results, fixedByStep>>

SolveInitialConditions ==
    /\ pc = "solve_ic"
    /\ \E tc \in TerminationConditions :
        /\ solves' = Append(solves, 0)
        /\ results' = Append(results, tc)
        /\ value' = SolverWrite(value, active, fixed, 0)
        /\ IF IsOptimal(tc)
           THEN /\ pc' = "post_ic"
                /\ UNCHANGED <<err, failure>>
           ELSE Raise(SolveError(0), "solve", 0)
    /\ UNCHANGED <<sibVars, svVars, disc, ignore_dof, stale, active, fixed, active0, fixed0,
                   value0, nfe, ncp, i, t_prev, fe, was_originally_active,
                   deactivated, con_unindexed_by_time, var_unindexed_by_time,
                   was_originally_fixed, fixedByStep>>

DeactivateInitialAndUnindexed ==
    /\ pc = "post_ic"
    /\ deactivated' = (DeactivatedRecord({1}) @@ deactivated)
    /\ con_unindexed_by_time' = UnindexedConsList(active)
    /\ var_unindexed_by_time' = UnindexedVarsList(fixed)
    /\ active' = [c \in DOMAIN active |->
                    IF c \in UnindexedConsList(active) THEN FALSE
                    ELSE deactivate_model_at(active, {1})[c]]
    /\ fixed' = [v \in DOMAIN fixed |->
                    IF v \in UnindexedVarsList(fixed) THEN TRUE ELSE fixed[v]]
    /\ i' = 1
    /\ pc' = IF InLoop(1, nfe) THEN "activate" ELSE "final"
    /\ UNCHANGED <<sibVars, svVars, disc, ignore_dof, stale, value, active0, fixed0, value0,
                   err, failure, nfe, ncp, t_prev, fe, was_originally_active,
                   was_originally_fixed, solves, results, fixedByStep>>

ElementActivate ==
    /\ pc = "activate"
    /\ t_prev' = TPrev(i, ncp)
    /\ fe' = FEPoints(i, ncp)
    /\ active' = ActivateAt(active, FEPoints(i, ncp), deactivated,
                            was_originally_active)
    /\ pc' = "fix"
    /\ UNCHANGED <<sibVars, svVars, disc, ignore_dof, stale, fixed, value, active0, fixed0,
                   value0, err, failure, nfe, ncp, i, was_originally_active,
                   deactivated, con_unindexed_by_time, var_unindexed_by_time,
                   was_originally_fixed, solves, results, fixedByStep>>

ElementFix ==
    /\ pc = "fix"
    /\ was_originally_fixed' = [v \in PairVars(t_prev) |-> fixed[v]]
    /\ fixedByStep' = FixCalls(value, t_prev)
    /\ fixed' = [v \in DOMAIN fixed |->
                    IF v \in FixCalls(value, t_prev) THEN TRUE ELSE fixed[v]]
    /\ pc' = "copy"
    /\ UNCHANGED <<sibVars, svVars, disc, ignore_dof, stale, active, value, active0, fixed0,
                   value0, err, failure, nfe, ncp, i, t_prev, fe,
                   was_originally_active, deactivated, con_unindexed_by_time,
                   var_unindexed_by_time, solves, results>>

ElementCopy ==
    /\ pc = "copy"
    /\ value' = CopyValues(value, fixed, fe, t_prev)
    /\ pc' = "elem_dof"
    /\ UNCHANGED <<sibVars, svVars, disc, ignore_dof, stale, active, fixed, active0, fixed0,
                   value0, err, failure, nfe, ncp, i, t_prev, fe,
                   was_originally_active, deactivated, con_unindexed_by_time,
                   var_unindexed_by_time, was_originally_fixed, solves,
                   results, fixedByStep>>

ElementDofCheck ==
    /\ pc = "elem_dof"
    /\ IF DofGate(ignore_dof, degrees_of_freedom(active, fixed))
       THEN Raise(ElementDofError, "dof", i)
       ELSE /\ pc' = "solve"
            /\ UNCHANGED <<err, failure>>
    /\ UNCHANGED <<sibVars, svVars, disc, ignore_dof, stale, active, fixed, value, active0,
                   fixed0, value0, nfe, ncp, i, t_prev, fe,
                   was_originally_active, deactivated, con_unindexed_by_time,
                   var_unindexed_by_time, was_originally_fixed, solves,
                   results, fixedByStep>>

ElementSolve ==
    /\ pc = "solve"
    /\ \E tc \in TerminationConditions :
        /\ solves' = Append(solves, i)
        /\ results' = Append(results, tc)
        /\ value' = SolverWrite(value, active, fixed, i)
        /\ IF IsOptimal(tc)
           THEN /\ pc' = "deactivate"
                /\ UNCHANGED <<err, failure>>
           ELSE Raise(SolveError(i), "solve", i)
    /\ UNCHANGED <<sibVars, svVars, disc, ignore_dof, stale, active, fixed, active0, fixed0,
                   value0, nfe, ncp, i, t_prev, fe, was_originally_active,
                   deactivated, con_unindexed_by_time, var_unindexed_by_time,
                   was_originally_fixed, fixedByStep>>

ElementDeactivate ==
    /\ pc = "deactivate"
    /\ active' = DeactivateAt(active, fe, deactivated)
    /\ pc' = "unfix"
    /\ UNCHANGED <<sibVars, svVars, disc, ignore_dof, stale, fixed, value, active0, fixed0,
                   value0, err, failure, nfe, ncp, i, t_prev, fe,
                   was_originally_active, deactivated, con_unindexed_by_time,
                   var_unindexed_by_time, was_originally_fixed, solves,
                   results, fixedByStep>>

ElementUnfix ==
    /\ pc = "unfix"
    /\ fixed' = UnfixPairs(fixed, was_originally_fixed, t_prev)
    /\ i' = i + 1
    /\ pc' = IF InLoop(i + 1, nfe) THEN "activate" ELSE "final"
    /\ UNCHANGED <<sibVars, svVars, disc, ignore_dof, stale, active, value, active0, fixed0,
                   value0, err, failure, nfe, ncp, t_prev, fe,
                   was_originally_active, deactivated, con_unindexed_by_time,
                   var_unindexed_by_time, was_originally_fixed, solves,
                   results, fixedByStep>>

\* Reactivation, at every point, of the recorded components that were
\* originally active, then of the unindexed constraints.
FinalActive(act, rec, snap, ucons) ==
    [c \in DOMAIN act |->
        IF c \in ucons THEN TRUE ELSE ActivateAt(act, DOMAIN rec, rec, snap)[c]]

\* Variant: the unindexed variables are left fixed.
FinalFixed_Keeps(fx, uvars) == fx

FinalFixed(fx, uvars) ==
    [v \in DOMAIN fx |-> IF v \in uvars THEN FALSE ELSE fx[v]]

Finalize ==
    /\ pc = "final"
    /\ active' = FinalActive(active, deactivated, was_originally_active,
                             con_unindexed_by_time)
    /\ fixed' = FinalFixed(fixed, var_unindexed_by_time)
    /\ pc' = "done"
    /\ UNCHANGED <<sibVars, svVars, disc, ignore_dof, stale, value, active0, fixed0, value0,
                   err, failure, nfe, ncp, i, t_prev, fe,
                   was_originally_active, deactivated, con_unindexed_by_time,
                   var_unindexed_by_time, was_originally_fixed, solves,
                   results, fixedByStep>>

Next ==
    \/ Validate
    \/ CheckInitialDof
    \/ SnapshotAndDeactivate
    \/ SolveInitialConditions
    \/ DeactivateInitialAndUnindexed
    \/ ElementActivate
    \/ ElementFix
    \/ ElementCopy
    \/ ElementDofCheck
    \/ ElementSolve
    \/ ElementDeactivate
    \/ ElementUnfix
    \/ Finalize

Spec == Init /\ [][Next]_vars

\* The function runs in one thread and every solver call returns: a step
\* that can be taken is taken.
SpecFair == Spec /\ WF_vars(Next)

-----------------------------------------------------------------------------
(* solve_indexed_blocks                                                    *)

MaxBlocks == 4

\* initialize_by_time_element is not running.
MainUnused ==
    /\ disc = NotDiscretized
    /\ ignore_dof = FALSE
    /\ stale = {}
    /\ active = << >>
    /\ fixed = << >>
    /\ value = << >>
    /\ active0 = << >>
    /\ fixed0 = << >>
    /\ value0 = << >>
    /\ pc = "unused"
    /\ err = NoErr
    /\ failure = <<"none", 0>>
    /\ nfe = 0
    /\ ncp = 0
    /\ i = 0
    /\ t_prev = 0
    /\ fe = {}
    /\ was_originally_active = << >>
    /\ deactivated = << >>
    /\ con_unindexed_by_time = {}
    /\ var_unindexed_by_time = {}
    /\ was_originally_fixed = << >>
    /\ solves = << >>
    /\ results = << >>
    /\ fixedByStep = {}

\* What a caller passes as blocks: one object that inherits from Block, or a
\* list whose members are Blocks or something else.
MemberLists ==
    UNION {[1..n -> {"Block", "Other"}] : n \in 0..MaxBlocks}

BlockArgs ==
    {[is_block |-> TRUE, list |-> << >>]}
        \cup {[is_block |-> FALSE, list |-> l] : l \in MemberLists}

InitBlocks ==
    /\ MainUnused
    /\ SvUnused
    /\ blocks \in BlockArgs
    /\ tmp_decl = << >>
    /\ tmp_decl_order = << >>
    /\ tmp_ctypes = << >>
    /\ sib_pc = "start"
    /\ sib_i = 0
    /\ sib_exc = ""

\* blocks = [blocks] when blocks is itself a Block
ToList(b) ==
    IF b.is_block THEN <<"Block">> ELSE b.list

\* tmp._decl["block_%s" % k] = k
DeclAdd(decl, k) ==
    (<<"block", k>> :> k) @@ decl

\* tmp._decl_order.append((b, k+1 if k < nBlocks-1 else None)); the member b
\* is represented by its index in blocks
DeclOrderAppend(order, k, nBlocks) ==
    Append(order, <<k, IF k < nBlocks - 1 THEN k + 1 ELSE None>>)

\* tmp._ctypes[Block] = [0, nBlocks-1, nBlocks]
CtypesEntry(nBlocks) ==
    ("Block" :> <<0, nBlocks - 1, nBlocks>>)

\* Where control goes when an exception is raised inside the try block, in
\* a variant whose clean-up follows the try block instead of being its
\* finally clause.
AfterRaise_SkipsFinally == "raised"

\* Where control goes when an exception is raised inside the try block.
AfterRaise == "finally"

\* lines 176-183: the list conversion and the new, empty temporary Block
SibBegin ==
    /\ sib_pc = "start"
    /\ blocks' = [blocks EXCEPT !.list = ToList(blocks)]
    /\ tmp_decl' = << >>
    /\ tmp_decl_order' = << >>
    /\ tmp_ctypes' = << >>
    /\ sib_i' = 0
    /\ sib_pc' = "populate"
    /\ UNCHANGED <<mainVars, svVars, sib_exc>>

\* lines 186-197: one iteration of the loop over the members
SibPopulate ==
    /\ sib_pc = "populate"
    /\ sib_i < Len(blocks.list)
    /\ IF blocks.list[sib_i + 1] # "Block"
       THEN /\ sib_exc' = "TypeError"
            /\ sib_pc' = AfterRaise
            /\ UNCHANGED <<tmp_decl, tmp_decl_order, sib_i>>
       ELSE /\ tmp_decl' = DeclAdd(tmp_decl, sib_i)
            /\ tmp_decl_order' =
                  DeclOrderAppend(tmp_decl_order, sib_i, Len(blocks.list))
            /\ sib_i' = sib_i + 1
            /\ UNCHANGED <<sib_exc, sib_pc>>
    /\ UNCHANGED <<mainVars, svVars, blocks, tmp_ctypes>>

\* line 200
SibSetCtypes ==
    /\ sib_pc = "populate"
    /\ sib_i = Len(blocks.list)
    /\ tmp_ctypes' = CtypesEntry(Len(blocks.list))
    /\ sib_pc' = "solve"
    /\ UNCHANGED <<mainVars, svVars, blocks, tmp_decl, tmp_decl_order, sib_i,
                   sib_exc>>

\* line 203: the solver returns a results object or raises
SibSolve ==
    /\ sib_pc = "solve"
    /\ \/ /\ sib_exc' = ""
          /\ sib_pc' = "finally"
       \/ /\ sib_exc' = "SolverError"
          /\ sib_pc' = AfterRaise
    /\ UNCHANGED <<mainVars, svVars, blocks, tmp_decl, tmp_decl_order,
                   tmp_ctypes, sib_i>>

\* lines 205-213: the finally clause, then the return or the re-raise
SibFinally ==
    /\ sib_pc = "finally"
    /\ tmp_decl' = << >>
    /\ tmp_decl_order' = << >>
    /\ tmp_ctypes' = << >>
    /\ sib_pc' = IF sib_exc = "" THEN "returned" ELSE "raised"
    /\ UNCHANGED <<mainVars, svVars, blocks, sib_i, sib_exc>>

NextBlocks ==
    \/ SibBegin
    \/ SibPopulate
    \/ SibSetCtypes
    \/ SibSolve
    \/ SibFinally

SpecBlocks == InitBlocks /\ [][NextBlocks]_vars

-----------------------------------------------------------------------------
(* fix_state_vars and revert_state_vars                                    *)

MaxStateBlocks == 1

\* blk.keys()
StateBlockKeys == 1..MaxStateBlocks

\* define_state_vars() of the modelled state block: one scalar variable,
\* whose only index is None, and one variable indexed by two components.
StateVarNames == <<"pressure", "flow_mol_comp">>

StateVarIndex(n) ==
    IF n = "pressure" THEN <<None>> ELSE <<1, 2>>

\* The (k, n, i) triples in the order the three nested loops visit them.
RECURSIVE SlotsOfVar(_, _, _)
SlotsOfVar(k, n, j) ==
    IF j > Len(StateVarIndex(n)) THEN << >>
    ELSE <<<<k, n, StateVarIndex(n)[j]>>>> \o SlotsOfVar(k, n, j + 1)

RECURSIVE SlotsOfBlock(_, _)
SlotsOfBlock(k, j) ==
    IF j > Len(StateVarNames) THEN << >>
    ELSE SlotsOfVar(k, StateVarNames[j], 1) \o SlotsOfBlock(k, j + 1)

RECURSIVE SlotsFrom(_)
SlotsFrom(k) ==
    IF k > MaxStateBlocks THEN << >>
    ELSE SlotsOfBlock(k, 1) \o SlotsFrom(k + 1)

SlotOrder == SlotsFrom(1)

Slots == {SlotOrder[j] : j \in 1..Len(SlotOrder)}

\* state_args: None, or a dict whose keys are some of the names; indices is
\* the key set of the dict given for the indexed variable.
StateArgs ==
    {[is_none |-> TRUE, names |-> {}, indices |-> {}]}
        \cup {[is_none |-> FALSE, names |-> ns, indices |-> ix] :
                ns \in SUBSET {"pressure"}, ix \in {{}}}
        \cup {[is_none |-> FALSE, names |-> ns \cup {"flow_mol_comp"},
               indices |-> ix] :
                ns \in SUBSET {"pressure"}, ix \in SUBSET {1, 2}}

\* The value found in state_args for a variable.
GuessValue(n, idx) ==
    IF idx = None THEN 10 ELSE 10 + idx

InitStateVars ==
    /\ MainUnused
    /\ SibUnused
    /\ blk_fixed \in [Slots -> BOOLEAN]
    /\ blk_value \in [Slots -> {None, 0}]
    /\ blk_fixed0 = blk_fixed
    /\ blk_value0 = blk_value
    /\ state_args \in StateArgs
    /\ flags = << >>
    /\ sv_pc = "start"
    /\ sv_err = NoErr

\* lines 51-52
ArgNames(args) ==
    IF args.is_none THEN {} ELSE args.names

\* state_args[n] or state_args[n][i] raises KeyError
GuessKeyError(args, n, idx) ==
    idx # None /\ idx \notin args.indices

\* lines 58-89: the body of the innermost loop for one variable; st holds
\* the flags so far, the fixed flags, the values and the exception raised
FixOne(st, slot, args) ==
    LET fl == (slot :> st.fixed[slot]) @@ st.flags IN
    IF st.fixed[slot] THEN [st EXCEPT !.flags = fl]
    ELSE IF slot[2] \in ArgNames(args)
    THEN IF GuessKeyError(args, slot[2], slot[3])
         THEN [st EXCEPT !.flags = fl,
                         !.err = [type |-> "ConfigurationError",
                                  msg |-> "Indexes in state_args did not agree"]]
         ELSE [st EXCEPT !.flags = fl,
                         !.fixed[slot] = TRUE,
                         !.value[slot] = GuessValue(slot[2], slot[3])]
    ELSE IF st.value[slot] # None
    THEN [st EXCEPT !.flags = fl, !.fixed[slot] = TRUE]
    ELSE [st EXCEPT !.flags = fl,
                    !.err = [type |-> "ConfigurationError",
                             msg |-> "does not have a value assigned"]]

\* lines 55-57: the loops, left at the first exception
RECURSIVE FixFrom(_, _, _)
FixFrom(j, st, args) ==
    IF j > Len(SlotOrder) \/ st.err # NoErr THEN st
    ELSE FixFrom(j + 1, FixOne(st, SlotOrder[j], args), args)

\* line 112, in a variant that unfixes whatever the flag says
ShouldUnfix_Always(flag) == TRUE

\* line 112: if not flags[k, n, i]
ShouldUnfix(flag) == ~flag

\* lines 111-118: the body of the innermost loop for one variable
RevertOne(st, slot) ==
    IF slot \notin DOMAIN st.flags
    THEN [st EXCEPT !.err = [type |-> "ConfigurationError",
                             msg |-> "Indices of flags proved do not match"]]
    ELSE IF ShouldUnfix(st.flags[slot])
    THEN [st EXCEPT !.fixed[slot] = FALSE]
    ELSE st

\* lines 108-110
RECURSIVE RevertFrom(_, _)
RevertFrom(j, st) ==
    IF j > Len(SlotOrder) \/ st.err # NoErr THEN st
    ELSE RevertFrom(j + 1, RevertOne(st, SlotOrder[j]))

\* flags = fix_state_vars(blk, state_args)
FixStateVars ==
    /\ sv_pc = "start"
    /\ LET st == FixFrom(1, [flags |-> << >>, fixed |-> blk_fixed,
                             value |-> blk_value, err |-> NoErr], state_args)
       IN /\ blk_fixed' = st.fixed
          /\ blk_value' = st.value
          /\ sv_err' = st.err
          /\ flags' = IF st.err = NoErr THEN st.flags ELSE << >>
          /\ sv_pc' = IF st.err = NoErr THEN "fixed" ELSE "raised"
    /\ UNCHANGED <<mainVars, sibVars, blk_fixed0, blk_value0, state_args>>

\* revert_state_vars(blk, flags)
RevertStateVars ==
    /\ sv_pc = "fixed"
    /\ LET st == RevertFrom(1, [flags |-> flags, fixed |-> blk_fixed,
                                value |-> blk_value, err |-> NoErr])
       IN /\ blk_fixed' = st.fixed
          /\ sv_err' = st.err
          /\ sv_pc' = IF st.err = NoErr THEN "reverted" ELSE "raised"
    /\ UNCHANGED <<mainVars, sibVars, blk_value, blk_fixed0, blk_value0,
                   state_args, flags>>

NextStateVars ==
    \/ FixStateVars
    \/ RevertStateVars

SpecStateVars == InitStateVars /\ [][NextStateVars]_vars

-----------------------------------------------------------------------------
(* Properties                                                              *)

SetMax(S) == CHOOSE x \in S : \A y \in S : y <= x

SetMin(S) == CHOOSE x \in S : \A y \in S : x <= y

\* The stages at which the function sits between the activation of an
\* element and the end of its solve.
AtElementSolve == pc \in {"elem_dof", "solve"}

FailedAtElement == pc = "failed" /\ failure[1] \in {"dof", "solve"} /\ failure[2] >= 1

\* C1: a run that reaches Done leaves every constraint, time-indexed or
\* not, with the active flag it had when the function was called.
C1_ActivityRoundTrip == pc = "done" => active = active0

C1_Witness ==
    /\ pc = "done"
    /\ nfe = 2
    /\ \E c \in TimeCons : c[3] >= 2 /\ ~active0[c]

C1_WitnessUnindexed == pc = "done" /\ ~active0[UCon]

\* The time domains the validation must reject.
RejectedDomain ==
    \/ disc = NotDiscretized
    \/ disc.scheme \notin {"LAGRANGE-RADAU", "BACKWARD Difference"}

\* C2: for a time domain that is not discretized, or whose scheme is
\* Legendre, forward, central or unrecognized, the function raises without
\* calling the solver and without changing any active flag, fixed flag or
\* value.
C2_RejectionBeforeMutation ==
    RejectedDomain =>
        /\ pc \in {"start", "failed"}
        /\ pc = "failed" => err # NoErr /\ failure = <<"scheme", 0>>
        /\ solves = << >>
        /\ active = active0
        /\ fixed = fixed0
        /\ value = value0

C2_Witness ==
    /\ pc = "failed"
    /\ disc # NotDiscretized
    /\ disc.scheme = "FORWARD Difference"
    /\ err.type = "NotImplementedError"

\* C3: the solver is called for the consistent initial conditions first
\* and then for the elements 1, 2, ... in order, each once; a non-optimal
\* termination or a failed DOF check ends the run: nothing is solved after
\* it and no step is enabled any more.
C3_FailedIsTerminalAndOrdered ==
    /\ \A k \in 1..Len(solves) : solves[k] = k - 1
    /\ Len(solves) <= nfe + 1
    /\ Len(results) = Len(solves)
    /\ \A k \in 1..Len(results) :
          ~(results[k] = "optimal") =>
              /\ k = Len(results)
              /\ pc = "failed"
              /\ failure = <<"solve", k - 1>>
    /\ pc = "failed" /\ failure[1] = "dof" => Len(solves) = failure[2]
    /\ pc = "failed" => ~ENABLED Next

C3_Witness ==
    /\ pc = "failed"
    /\ failure = <<"solve", 1>>
    /\ nfe = 2
    /\ solves = <<0, 1>>

\* C4 as stated: with the check on, the degrees of freedom of the model
\* as it stands are zero at every call of the solver.
C4_SquareAtEverySolve ==
    ~ignore_dof /\ pc \in {"solve_ic", "solve"} =>
        degrees_of_freedom(active, fixed) = 0

\* C4 as amended: with the check on, the degrees of freedom of the model as
\* it stands are zero at every element solve, and a failed DOF check of an
\* element ends the run before that element is solved; the consistent
\* initial condition solve is reached only when the degrees of freedom of
\* the model as passed were zero.
C4_SquareAtElementSolves ==
    ~ignore_dof =>
        /\ pc = "solve" => degrees_of_freedom(active, fixed) = 0
        /\ pc = "solve_ic" => degrees_of_freedom(active0, fixed0) = 0
        /\ \A k \in 1..Len(solves) :
              solves[k] >= 1 => failure # <<"dof", solves[k]>>

C4_Witness ==
    /\ ~ignore_dof
    /\ pc = "solve"
    /\ i = 2
    /\ degrees_of_freedom(active, fixed) = 0

\* C5: element k starts at point (k-1)*ncp+1 and owns the ncp points that
\* follow it; the elements' points are disjoint contiguous blocks that
\* cover the non-initial points, the first element starts at the first
\* point and every other one at the last point of its predecessor; for
\* nfe = 4 and ncp = 2, element 2 starts at point 3 and owns points 4, 5.
C5_ElementLayout ==
    /\ nfe > 0 =>
        /\ \A k \in 1..nfe :
              /\ FEPoints(k, ncp) \subseteq Time \ {1}
              /\ Cardinality(FEPoints(k, ncp)) = ncp
              /\ FEPoints(k, ncp) =
                    (TPrev(k, ncp) + 1)..(TPrev(k, ncp) + ncp)
              /\ TPrev(k, ncp) =
                    IF k = 1 THEN 1 ELSE SetMax(FEPoints(k - 1, ncp))
        /\ \A k, m \in 1..nfe :
              k # m => FEPoints(k, ncp) \cap FEPoints(m, ncp) = {}
        /\ UNION {FEPoints(k, ncp) : k \in 1..nfe} = Time \ {1}
    /\ pc \in {"fix", "copy", "elem_dof", "solve", "deactivate", "unfix"} =>
        /\ t_prev = (i - 1) * ncp + 1
        /\ fe = {t \in Time : (i - 1) * ncp + 2 <= t /\ t <= i * ncp + 1}
        /\ Cardinality(fe) = ncp
    /\ TPrev(2, 2) = 3
    /\ FEPoints(2, 2) = {4, 5}

C5_Witness ==
    /\ pc = "solve"
    /\ i = 2
    /\ ncp = 2
    /\ t_prev = 3
    /\ fe = {4, 5}

\* C6 as stated: after the fixing step of an element, no pair variable at
\* t_prev whose value is None has been fixed by that step.
C6_NoFixingOfUnsolved ==
    pc \in {"copy", "elem_dof", "solve"} =>
        \A v \in PairVars(t_prev) :
            value[v] = None => fixed[v] = was_originally_fixed[v]

\* C7: with ignore_dof set no run fails on a DOF check; a run that fails
\* after the scheme validation fails on a non-optimal termination.
C7_IgnoreDofDisablesGates ==
    ignore_dof =>
        /\ failure[1] # "dof"
        /\ err \notin {InitialDofError, ElementDofError}
        /\ pc = "failed" /\ failure[1] # "scheme" =>
              /\ failure[1] = "solve"
              /\ results[Len(results)] # "optimal"
              /\ err = SolveError(failure[2])

C7_Witness ==
    /\ ignore_dof
    /\ degrees_of_freedom(active0, fixed0) # 0
    /\ pc = "done"

C7_WitnessElement ==
    /\ ignore_dof
    /\ pc = "solve"
    /\ degrees_of_freedom(active, fixed) # 0

\* C8 as stated: the exception raised for a non-optimal termination tells
\* the stage: it differs from the exception any other stage would raise.
C8_FailureTaggedWithStage ==
    pc = "failed" /\ failure[1] = "solve" =>
        \A s \in 0..nfe : s # failure[2] => err # SolveError(s)

\* C9: with the check on and nonzero degrees of freedom in the model as
\* passed, the run fails at the initial check: no solver call, nothing
\* recorded as deactivated, every active and fixed flag as passed.
C9_InitialDofPrecondition ==
    (/\ ~ignore_dof
     /\ ~RejectedDomain
     /\ degrees_of_freedom(active0, fixed0) # 0) =>
        /\ pc \in {"start", "check_dof", "failed"}
        /\ pc = "failed" => err = InitialDofError /\ failure = <<"dof", 0>>
        /\ solves = << >>
        /\ deactivated = << >>
        /\ active = active0
        /\ fixed = fixed0

C9_Witness ==
    /\ pc = "failed"
    /\ failure = <<"dof", 0>>
    /\ degrees_of_freedom(active0, fixed0) < 0

\* C10: a run that fails at element i (DOF check or solve) stops with the
\* model as the element's preparation left it: the originally active
\* constraints at the element's points active, every other time-indexed
\* constraint inactive, the pair variables fixed at t_prev fixed, the
\* unindexed constraints inactive and the unindexed variables fixed.
C10_NoRollbackOnFailure ==
    FailedAtElement =>
        /\ failure[2] = i
        /\ \A c \in TimeCons :
              active[c] = (c[3] \in FEPoints(i, ncp) /\ active0[c])
        /\ ~active[UCon]
        /\ fixed[UVar]
        /\ \A v \in PairVars(TPrev(i, ncp)) :
              fixed0[v] \/ v \in fixedByStep => fixed[v]
        /\ \A p \in Pairs :
              value[<<"drv", p, TPrev(i, ncp)>>] # None =>
                  fixed[<<"drv", p, TPrev(i, ncp)>>]

C10_Witness ==
    /\ pc = "failed"
    /\ failure = <<"solve", 2>>
    /\ \E c \in ConsAt(SetMax(Time)) : active[c]
    /\ \E v \in PairVars(t_prev) : fixed[v] /\ ~fixed0[v]

C10_WitnessDof ==
    /\ pc = "failed"
    /\ failure[1] = "dof"
    /\ failure[2] >= 1
    /\ degrees_of_freedom(active0, fixed0) = 0

\* C11: every run ends in done or failed; a run that ends in done has
\* called the solver nfe + 1 times, once for the consistent initial
\* conditions and once per element, each call ending optimal; a run stops
\* nowhere but in done, or in failed after a rejected scheme, a failed DOF
\* check or a non-optimal termination.
C11_Termination ==
    /\ <>(pc \in {"done", "failed"})
    /\ [](pc = "done" =>
            /\ Len(solves) = nfe + 1
            /\ solves = [k \in 1..(nfe + 1) |-> k - 1]
            /\ \A k \in 1..Len(results) : results[k] = "optimal")
    /\ [](~ENABLED Next =>
            \/ pc = "done"
            \/ /\ pc = "failed"
               /\ \/ failure[1] \in {"scheme", "dof"}
                  \/ /\ failure[1] = "solve"
                     /\ results[Len(results)] # "optimal")

C11_Witness ==
    /\ pc = "done"
    /\ ~ignore_dof
    /\ nfe = 2
    /\ solves = <<0, 1, 2>>
    /\ results = <<"optimal", "optimal", "optimal">>

\* C14: when the solver is called for element i, a time-indexed constraint
\* is active exactly when it lies at a point of the element and was active
\* in the model as passed, and the unindexed constraint is inactive;
\* between elements every time-indexed constraint is inactive.
C14_ExposedSubproblem ==
    /\ AtElementSolve =>
        /\ \A c \in TimeCons :
              active[c] = (c[3] \in FEPoints(i, ncp) /\ active0[c])
        /\ ~active[UCon]
    /\ pc \in {"unfix", "activate", "final"} =>
        \A c \in TimeCons : ~active[c]

C14_Witness ==
    /\ pc = "solve"
    /\ i = 2
    /\ \E c \in TimeCons : c[3] \in fe /\ ~active0[c] /\ ~active[c]
    /\ \E c \in TimeCons : c[3] \in fe /\ active[c]
    /\ \A c \in ConsAt(t_prev) \cup ConsAt(1) : active0[c] /\ ~active[c]

\* C15 as stated: whether dv.fix() is called for a pair at t_prev is
\* decided by that pair's own variables: it is called when the pair's
\* derivative and differential variable both have a value, and not called
\* when both have none, whatever the other pairs' values are.
C15_PerPairGate ==
    pc = "copy" =>
        \A p \in Pairs :
            LET d == derivs_at_time(t_prev)[p]
                x == dvars_at_time(t_prev)[p]
            IN  /\ value[d] # None /\ value[x] # None => x \in fixedByStep
                /\ value[d] = None /\ value[x] = None => x \notin fixedByStep

\* C16: the unindexed constraint and variable keep the status the caller
\* gave them up to and during the consistent initial condition solve, and
\* in a run that fails there; they are inactive and fixed from the first
\* element's preparation to the end of the last element, and in a run that
\* fails at an element; they have the caller's status again in done.
C16_UnindexedOnceAndRestored ==
    /\ (\/ pc \in {"start", "check_dof", "snapshot", "solve_ic", "post_ic"}
        \/ pc = "failed" /\ failure[2] = 0) =>
            /\ active[UCon] = active0[UCon]
            /\ fixed[UVar] = fixed0[UVar]
            /\ con_unindexed_by_time = {}
            /\ var_unindexed_by_time = {}
    /\ (\/ pc \in {"activate", "fix", "copy", "elem_dof", "solve",
                   "deactivate", "unfix", "final"}
        \/ FailedAtElement) =>
            /\ ~active[UCon]
            /\ fixed[UVar]
            /\ Len(solves) >= 1 /\ results[1] = "optimal"
    /\ pc = "done" =>
            /\ active[UCon] = active0[UCon]
            /\ fixed[UVar] = fixed0[UVar]
            /\ Len(solves) = nfe + 1
            /\ results[nfe + 1] = "optimal"

C16_Witness ==
    /\ pc = "done"
    /\ nfe = 2
    /\ active[UCon]
    /\ ~fixed[UVar]
    /\ con_unindexed_by_time = {UCon}
    /\ var_unindexed_by_time = {UVar}

\* C17: for every element the values at t_prev are copied to the element's
\* points after the fixing step and before the DOF check and the solve: at
\* the DOF check and at the solve an unfixed variable at a point of the
\* element has the value of its instance at t_prev, a fixed one the value
\* the caller gave it; the solve of the element leaves the value of every
\* fixed variable at t_prev as it was.
C17_ForwardPropagation ==
    /\ pc = "copy" =>
        /\ DOMAIN was_originally_fixed = PairVars(t_prev)
        /\ Len(solves) = i
    /\ AtElementSolve =>
        /\ Len(solves) = i
        /\ \A v \in TimeVars :
              v[3] \in FEPoints(i, ncp) =>
                  /\ ~fixed[v] => value[v] = value[<<v[1], v[2], TPrev(i, ncp)>>]
                  /\ fixed[v] => value[v] = value0[v]
    /\ (\/ pc = "deactivate"
        \/ pc = "failed" /\ failure[1] = "solve" /\ failure[2] >= 1) =>
        \A v \in PairVars(t_prev) : fixed[v] => value[v] # i + 1

C17_Witness ==
    /\ pc = "deactivate"
    /\ i = 2
    /\ \E v \in PairVars(t_prev) : v \in fixedByStep /\ value[v] = i
    /\ \E v \in TimeVars :
          /\ v[3] \in fe
          /\ fixed[v]
          /\ value[v] # value[<<v[1], v[2], t_prev>>]

\* C18: a run that reaches done leaves every variable with the fixed flag
\* the caller gave it; after the unfix step of an element every pair
\* variable at the element's t_prev has the flag it had before the fixing
\* step, so that between elements every time-indexed variable has the
\* caller's flag.
C18_FixedRoundTrip ==
    /\ pc = "done" => fixed = fixed0
    /\ pc \in {"activate", "final"} /\ i >= 2 =>
        /\ \A v \in PairVars(TPrev(i - 1, ncp)) :
              fixed[v] = was_originally_fixed[v]
        /\ \A v \in TimeVars : fixed[v] = fixed0[v]

C18_Witness ==
    /\ pc = "done"
    /\ nfe = 2
    /\ \E v \in PairVars(TPrev(2, ncp)) : fixed0[v] /\ fixed[v]
    /\ \E v \in fixedByStep : ~fixed0[v]

\* C12: when control leaves solve_indexed_blocks, whether the solver
\* returned, the solver raised or a member that is not a Block was found,
\* the temporary block's _decl, _decl_order and _ctypes are empty.
C12_ScopedCleanup ==
    sib_pc \in {"returned", "raised"} =>
        /\ DOMAIN tmp_decl = {}
        /\ tmp_decl_order = << >>
        /\ DOMAIN tmp_ctypes = {}

C12_Witness ==
    /\ sib_pc = "raised"
    /\ sib_exc = "TypeError"
    /\ sib_i = 2
    /\ Len(blocks.list) = 4
    /\ DOMAIN tmp_decl = {}

\* A state variable has a guess when its name is a key of state_args and,
\* for an indexed variable, its index is a key of the dict found there.
HasGuess(slot) ==
    /\ slot[2] \in ArgNames(state_args)
    /\ ~GuessKeyError(state_args, slot[2], slot[3])

ValueOrGuess ==
    \A slot \in Slots :
        ~blk_fixed0[slot] => blk_value0[slot] # None \/ HasGuess(slot)

GuessWhereNamed ==
    \A slot \in Slots :
        ~blk_fixed0[slot] =>
            IF slot[2] \in ArgNames(state_args)
            THEN HasGuess(slot)
            ELSE blk_value0[slot] # None

RoundTrip ==
    /\ sv_pc # "raised"
    /\ sv_pc = "fixed" =>
        /\ DOMAIN flags = Slots
        /\ \A slot \in Slots : flags[slot] = blk_fixed0[slot]
        /\ \A slot \in Slots : blk_fixed[slot]
    /\ sv_pc = "reverted" =>
        /\ blk_fixed = blk_fixed0
        /\ \A slot \in Slots : blk_fixed0[slot] => blk_fixed[slot]

\* C13 as stated: whenever every unfixed state variable has a value or a
\* guess, fix_state_vars returns the earlier fixed flags and leaves every
\* state variable fixed, and revert_state_vars with those flags restores
\* every fixed flag.
C13_RoundTripValueOrGuess ==
    ValueOrGuess => RoundTrip

\* C13 amended: the same, whenever every unfixed state variable whose name
\* is a key of state_args has a guess at its index, and every other unfixed
\* state variable has a value.
C13_RoundTrip ==
    GuessWhereNamed => RoundTrip

C13_Witness ==
    /\ sv_pc = "reverted"
    /\ GuessWhereNamed
    /\ \E slot \in Slots : blk_fixed0[slot] /\ blk_fixed[slot]
    /\ \E slot \in Slots :
          /\ ~blk_fixed0[slot]
          /\ ~blk_fixed[slot]
          /\ blk_value0[slot] = None
          /\ blk_value[slot] = GuessValue(slot[2], slot[3])
    /\ \E slot \in Slots :
          /\ ~blk_fixed0[slot]
          /\ slot[2] \notin ArgNames(state_args)

====
